---- MODULE Spec2Model ----
(***************************************************************************)
(* Model of the multipass-exporter collection pipeline: the collector      *)
(* runs `multipass info --format=json` under a deadline, decodes its       *)
(* stdout into a MultipassInfoResponse and derives the gauge readings it   *)
(* sends on the Prometheus channel.                                        *)
(***************************************************************************)
EXTENDS Integers, Sequences, FiniteSets, TLC

VARIABLES
    world,      \* the inventory the multipass daemon would report right now
    timeout,    \* MultipassCollector.timeout, in seconds
    pc,         \* position of the Collect call
    ctxErr,     \* ctx.Err() of the context created by multipassInfo
    child,      \* the child process started by cmd.Run
    exitCode,   \* exit status of the child once it exited on its own
    stdout,     \* bytes.Buffer out, as a JSON document
    stderr,     \* bytes.Buffer stderr
    runErr,     \* the error returned by cmd.Run
    err,        \* the error returned by multipassInfo
    data,       \* the MultipassInfoResponse returned by multipassInfo (its Info map)
    ch,         \* the readings sent on the channel by the current Collect call
    fetches,    \* multipassInfo calls made by the current Collect call
    spawns,     \* child processes started by the current Collect call
    scrapes,    \* Collect calls started so far
    prevCh,     \* readings of the previous derivation over the same snapshot
    failures,   \* completed Collect calls so far whose fetch failed
    other,      \* the locals of the Collect call of the other goroutine
    descs,      \* the descriptors the registry got from Describe
    app         \* the configuration file and what LoadConfig returned for it

vars == <<world, timeout, pc, ctxErr, child, exitCode, stdout, stderr, runErr,
          err, data, ch, fetches, spawns, scrapes, prevCh, failures, other, descs, app>>

(***************************************************************************)
(* Bounds                                                                  *)
(***************************************************************************)
MaxInstances == 2
MaxTimeout == 1
MaxScrapes == 2
MaxOverlapInstances == 1

AllNames == <<"instance1", "instance2", "instance3", "instance4">>
Names == {AllNames[i] : i \in 1..MaxInstances}

(***************************************************************************)
(* Metric descriptors (fqName; the label keys are name, release for the    *)
(* per-instance descriptors and none for the others)                       *)
(***************************************************************************)
instanceTotal == "multipass_instances_total"
instanceRunning == "multipass_instances_running"
instanceStopped == "multipass_instances_stopped"
instanceDeleted == "multipass_instances_deleted"
instanceSuspended == "multipass_instances_suspended"
instanceMemoryBytes == "multipass_instance_memory_bytes"
instanceCPUTotal == "multipass_instance_cpu_total"
instanceLoad1m == "multipass_instance_load_1m"
instanceLoad5m == "multipass_instance_load_5m"
instanceLoad15m == "multipass_instance_load_15m"
multipassError == "multipass_error"

CountDescs == {instanceTotal, instanceRunning, instanceStopped, instanceDeleted, instanceSuspended}
StateDescs == {instanceRunning, instanceStopped, instanceDeleted, instanceSuspended}
LoadDescs == {instanceLoad1m, instanceLoad5m, instanceLoad15m}

\* the variable labels the descriptor was created with
VariableLabels(desc) ==
    IF desc \in {instanceMemoryBytes, instanceCPUTotal, instanceLoad1m, instanceLoad5m, instanceLoad15m}
    THEN <<"name", "release">>
    ELSE <<>>

\* MustNewConstMetric panics when the number of label values is not the
\* number of variable labels of the descriptor
Panics(reading) == Len(reading.labels) # Len(VariableLabels(reading.desc))

\* prometheus.MustNewConstMetric(desc, GaugeValue, value, labelValues...)
MustNewConstMetric(desc, value, labels) == [desc |-> desc, value |-> value, labels |-> labels]

\* the descriptors Describe sends on its channel, in the order it sends them
Describe ==
    << instanceTotal, instanceRunning, instanceStopped, instanceDeleted, instanceSuspended,
       instanceMemoryBytes, instanceCPUTotal, instanceLoad1m, instanceLoad5m, instanceLoad15m >>

(***************************************************************************)
(* MemoryInfo.Used is an int64 and a reading is a float64.  An int64 v is  *)
(* the pair hi, lo with v = hi * Base + lo and 0 <= lo < Base, so that     *)
(* values around 2^53, where a float64 stops holding every integer, are   *)
(* written with small numbers; the pair covers |v| < 2^54.                 *)
(***************************************************************************)
\* 2^27
Base == 134217728
\* 2^26: v reaches 2^53 when hi reaches Half
Half == 67108864

\* the int64 of a small integer
Int64(n) == [hi |-> n \div Base, lo |-> n % Base]

\* the int64 hi * Base + lo
Int64Of(hi, lo) == [hi |-> hi, lo |-> lo]

\* float64(n) of an int64 n: exact up to 2^53 in magnitude; beyond it the
\* float64s are the even integers, and an odd n goes to the neighbour whose
\* significand is even, which is the multiple of 4
Float64(n) ==
    IF (n.hi >= Half \/ n.hi < 0 - Half) /\ n.lo % 2 = 1
    THEN LET lo == IF (n.lo + 1) % 4 = 0 THEN n.lo + 1 ELSE n.lo - 1
         IN  IF lo = Base THEN Int64Of(n.hi + 1, 0) ELSE Int64Of(n.hi, lo)
    ELSE n

(***************************************************************************)
(* Instance records.  A text that the code scans (cpu_count) is a sequence *)
(* of characters; a load sample is in hundredths; memory is in bytes.      *)
(***************************************************************************)
\* MultipassInfoOutput: the fields the collector reads
MultipassInfoOutput(state, release, used, cpu, load) ==
    [State |-> state, Release |-> release, MemoryUsed |-> used, CPUCount |-> cpu, Load |-> load]

\* the zero value of MultipassInfoOutput
ZeroInfoOutput == MultipassInfoOutput("", "", Int64(0), <<>>, <<>>)

\* records of the inventory used by the scrape state machine
WorldRecords ==
    { MultipassInfoOutput("Running", "22.04 LTS", Int64(536870912), <<"2">>, <<10, 20, 30>>),
      MultipassInfoOutput("Stopped", "20.04 LTS", Int64(0), <<"a", "b", "c">>, <<100>>) }

\* records of the snapshots used to exercise the derivation alone
DeriveRecords ==
    WorldRecords \cup
    { MultipassInfoOutput("Starting", "24.04 LTS", Int64(268435456), <<>>, <<>>),
      MultipassInfoOutput("Deleted", "22.04 LTS", Int64(0), <<"0">>, <<0, 0, 0>>),
      MultipassInfoOutput("Suspended", "20.04 LTS", Int64Of(Half, 1), <<"3", "a">>, <<1, 2, 3, 4>>),
      MultipassInfoOutput("running", "", Int64(0 - 1), <<"-", "x">>, <<5, 6>>),
      MultipassInfoOutput("Stopped", "22.04 LTS", Int64(268435456), <<" ", "+", "1", "_", "6">>, <<0, 5>>),
      ZeroInfoOutput }

\* every map from a set of instance names to records of R
Snapshots(R) == UNION {[S -> R] : S \in SUBSET Names}

\* MultipassInfoResponse{}: a nil Info map ranges like an empty one
EmptySnapshot == [n \in {} |-> ZeroInfoOutput]

(***************************************************************************)
(* JSON documents: what the child wrote on stdout.  k is the kind of the   *)
(* value, v its content; "invalid" stands for bytes that are no JSON text. *)
(***************************************************************************)
JInvalid == [k |-> "invalid", v |-> 0]
JNull == [k |-> "null", v |-> 0]
JNum(n) == [k |-> "num", v |-> n]
\* a number with a fraction, such as 1.5
JFrac == [k |-> "frac", v |-> 0]
JStr(s) == [k |-> "str", v |-> s]
JArr(a) == [k |-> "arr", v |-> a]
JObj(o) == [k |-> "obj", v |-> o]
EmptyObj == [key \in {} |-> JNull]

\* one instance as `multipass info --format=json` prints it
EncodeInstance(r) ==
    JObj("state" :> JStr(r.State) @@ "release" :> JStr(r.Release) @@
         "memory" :> JObj("total" :> JNum(Int64(1073741824)) @@ "used" :> JNum(r.MemoryUsed)) @@
         "cpu_count" :> JStr(r.CPUCount) @@
         "load" :> JArr([i \in 1..Len(r.Load) |-> JNum(r.Load[i])]))

\* the whole inventory as `multipass info --format=json` prints it
EncodeInfo(w) ==
    JObj("errors" :> JArr(<<>>) @@ "info" :> JObj([n \in DOMAIN w |-> EncodeInstance(w[n])]))

\* an instance whose cpu_count is a JSON number instead of a string
EncodeInstanceNumericCPU(r) ==
    JObj("state" :> JStr(r.State) @@ "release" :> JStr(r.Release) @@ "cpu_count" :> JNum(2))

\* an instance whose used memory is a number with a fraction
EncodeInstanceFractionalMemory(r) ==
    JObj("state" :> JStr(r.State) @@ "release" :> JStr(r.Release) @@
         "memory" :> JObj("total" :> JNum(Int64(1073741824)) @@ "used" :> JFrac))

\* what a child that exits may have written on stdout when the inventory is w
StdoutChoices(w) ==
    { EncodeInfo(w),
      JInvalid,
      JNull,
      JArr(<<>>),
      JObj(EmptyObj),
      JObj("list" :> JArr(<<>>)),
      JObj("info" :> JNull),
      JObj("info" :> JArr(<<>>)),
      JObj("info" :> JObj([n \in DOMAIN w |-> JNull])),
      JObj("info" :> JObj([n \in DOMAIN w |-> JNum(1)])),
      JObj("info" :> JObj([n \in DOMAIN w |-> EncodeInstanceNumericCPU(w[n])])),
      JObj("info" :> JObj([n \in DOMAIN w |-> EncodeInstanceFractionalMemory(w[n])])) }

StderrChoices == {"", "info failed: cannot connect to the multipass socket"}

\* exit status, stdout and stderr of a child that exits on its own
ChildOutputs(w) ==
    {[code |-> 0, out |-> doc, err |-> ""] : doc \in StdoutChoices(w)} \cup
    {[code |-> 0, out |-> JInvalid, err |-> text] : text \in StderrChoices} \cup
    {[code |-> 1, out |-> JInvalid, err |-> text] : text \in StderrChoices} \cup
    {[code |-> 1, out |-> EncodeInfo(w), err |-> ""]}

(***************************************************************************)
(* encoding/json.Unmarshal into MultipassInfoResponse                      *)
(***************************************************************************)
\* the member is present and not null: a null leaves the Go field untouched
Has(o, key) == key \in DOMAIN o /\ o[key].k # "null"

\* the member, when present, has the JSON kind the Go field accepts
KindOK(o, key, kind) == Has(o, key) => o[key].k = kind

\* the decoded member, or the zero value of the Go field
Member(o, key, zero) == IF Has(o, key) THEN o[key].v ELSE zero

\* MemoryInfo.Used
UnmarshalMemoryOK(o) ==
    /\ KindOK(o, "memory", "obj")
    /\ Has(o, "memory") => /\ KindOK(o["memory"].v, "used", "num")
                           /\ KindOK(o["memory"].v, "total", "num")

UnmarshalMemoryUsed(o) ==
    IF Has(o, "memory") THEN Member(o["memory"].v, "used", Int64(0)) ELSE Int64(0)

\* Load []float64
UnmarshalLoadOK(o) ==
    /\ KindOK(o, "load", "arr")
    /\ Has(o, "load") => \A i \in 1..Len(o["load"].v) : o["load"].v[i].k \in {"num", "null"}

UnmarshalLoad(o) ==
    IF Has(o, "load")
    THEN [i \in 1..Len(o["load"].v) |-> IF o["load"].v[i].k = "num" THEN o["load"].v[i].v ELSE 0]
    ELSE <<>>

\* one value of the Info map
UnmarshalInstance(j) ==
    IF j.k = "null" THEN [ok |-> TRUE, val |-> ZeroInfoOutput]
    ELSE IF j.k # "obj" THEN [ok |-> FALSE, val |-> ZeroInfoOutput]
    ELSE LET o == j.v
             ok == /\ KindOK(o, "state", "str")
                   /\ KindOK(o, "release", "str")
                   /\ KindOK(o, "cpu_count", "str")
                   /\ UnmarshalMemoryOK(o)
                   /\ UnmarshalLoadOK(o)
         IN  [ok |-> ok,
              val |-> IF ok
                      THEN MultipassInfoOutput(Member(o, "state", ""), Member(o, "release", ""),
                                               UnmarshalMemoryUsed(o), Member(o, "cpu_count", <<>>),
                                               UnmarshalLoad(o))
                      ELSE ZeroInfoOutput]

\* a decoder that insists on an info object
UnmarshalStrict(j) ==
    IF j.k # "obj" \/ ~Has(j.v, "info") \/ j.v["info"].k # "obj"
    THEN [ok |-> FALSE, val |-> EmptySnapshot]
    ELSE LET m == j.v["info"].v
             ok == \A n \in DOMAIN m : UnmarshalInstance(m[n]).ok
         IN  [ok |-> ok,
              val |-> IF ok THEN [n \in DOMAIN m |-> UnmarshalInstance(m[n]).val]
                      ELSE EmptySnapshot]

\* json.Unmarshal(out.Bytes(), &data): ok is err == nil, val is data.Info
Unmarshal(j) ==
    IF j.k = "null" THEN [ok |-> TRUE, val |-> EmptySnapshot]
    ELSE IF j.k # "obj" THEN [ok |-> FALSE, val |-> EmptySnapshot]
    ELSE IF ~Has(j.v, "info") THEN [ok |-> TRUE, val |-> EmptySnapshot]
    ELSE IF j.v["info"].k # "obj" THEN [ok |-> FALSE, val |-> EmptySnapshot]
    ELSE LET m == j.v["info"].v
             ok == \A n \in DOMAIN m : UnmarshalInstance(m[n]).ok
         IN  [ok |-> ok,
              val |-> IF ok THEN [n \in DOMAIN m |-> UnmarshalInstance(m[n]).val]
                      ELSE EmptySnapshot]

(***************************************************************************)
(* fmt.Sscanf(text, "%d", &cpuCount)                                       *)
(***************************************************************************)
DigitChars == <<"0", "1", "2", "3", "4", "5", "6", "7", "8", "9">>
IsDigit(c) == \E i \in 1..10 : DigitChars[i] = c
DigitVal(c) == (CHOOSE i \in 1..10 : DigitChars[i] = c) - 1

RECURSIVE SkipSpace(_)
\* leading blanks are skipped before a number
SkipSpace(s) == IF s # <<>> /\ Head(s) = " " THEN SkipSpace(Tail(s)) ELSE s

RECURSIVE ScanNumber(_)
\* the token of a number: the longest run of digits and underscores at the
\* front of s
ScanNumber(s) ==
    IF s # <<>> /\ (IsDigit(Head(s)) \/ Head(s) = "_") THEN <<Head(s)>> \o ScanNumber(Tail(s)) ELSE <<>>

RECURSIVE ScanDigits(_, _)
\* the value of the longest run of digits at the front of s, after acc
ScanDigits(s, acc) ==
    IF s # <<>> /\ IsDigit(Head(s)) THEN ScanDigits(Tail(s), acc * 10 + DigitVal(Head(s))) ELSE acc

\* a scan that reports a count of zero as a failure
SscanfNonZero(text) ==
    LET s == SkipSpace(text)
        signed == s # <<>> /\ Head(s) \in {"+", "-"}
        t == IF signed THEN Tail(s) ELSE s
        tok == ScanNumber(t)
        n == ScanDigits(tok, 0)
        ok == tok # <<>> /\ (\A i \in 1..Len(tok) : IsDigit(tok[i])) /\ n # 0
    IN  [ok |-> ok, val |-> IF ~ok THEN 0 ELSE IF signed /\ Head(s) = "-" THEN 0 - n ELSE n]

\* ok is err == nil; val is cpuCount: an optional sign, then a token of at
\* least one character that base 10 accepts, which an underscore is not;
\* whatever follows the token is left unread
Sscanf(text) ==
    LET s == SkipSpace(text)
        signed == s # <<>> /\ Head(s) \in {"+", "-"}
        t == IF signed THEN Tail(s) ELSE s
        tok == ScanNumber(t)
        ok == tok # <<>> /\ \A i \in 1..Len(tok) : IsDigit(tok[i])
        n == ScanDigits(tok, 0)
    IN  [ok |-> ok, val |-> IF ~ok THEN 0 ELSE IF signed /\ Head(s) = "-" THEN 0 - n ELSE n]

(***************************************************************************)
(* The derivation steps of Collect.  A Go map is ranged over in an order   *)
(* the runtime chooses anew for every range statement: order is that       *)
(* choice, a sequence enumerating the keys of the map.                     *)
(***************************************************************************)
Orders(S) == {o \in [1..Cardinality(S) -> S] : \A a \in S : \E i \in 1..Cardinality(S) : o[i] = a}

\* a count with the comparison inverted
getInstanceCountByStateWithDataNot(d, state) ==
    Cardinality({n \in DOMAIN d : d[n].State # state})

getInstanceCountByStateWithData(d, state) ==
    Cardinality({n \in DOMAIN d : d[n].State = state})

\* a table whose running row names the state in lower case
instanceMetricsLower ==
    << [name |-> "total", state |-> "", desc |-> instanceTotal],
       [name |-> "running", state |-> "running", desc |-> instanceRunning],
       [name |-> "stopped", state |-> "Stopped", desc |-> instanceStopped],
       [name |-> "deleted", state |-> "Deleted", desc |-> instanceDeleted],
       [name |-> "suspended", state |-> "Suspended", desc |-> instanceSuspended] >>

\* the instanceMetrics table of Collect
instanceMetrics ==
    << [name |-> "total", state |-> "", desc |-> instanceTotal],
       [name |-> "running", state |-> "Running", desc |-> instanceRunning],
       [name |-> "stopped", state |-> "Stopped", desc |-> instanceStopped],
       [name |-> "deleted", state |-> "Deleted", desc |-> instanceDeleted],
       [name |-> "suspended", state |-> "Suspended", desc |-> instanceSuspended] >>

\* a collectInstanceMetric without the special case of the total: the total
\* is counted as the instances whose state is the empty string
collectInstanceMetricByState(d, metric) ==
    MustNewConstMetric(metric.desc, getInstanceCountByStateWithData(d, metric.state), <<>>)

\* the reading collectInstanceMetric sends; it always returns nil
collectInstanceMetric(d, metric) ==
    LET count == IF metric.state = ""
                 THEN Cardinality(DOMAIN d)
                 ELSE getInstanceCountByStateWithData(d, metric.state)
    IN  MustNewConstMetric(metric.desc, count, <<>>)

\* a loop body that skips every instance whose used memory is not positive
memoryMetricPositive(name, info) ==
    IF info.MemoryUsed.hi < 0 \/ info.MemoryUsed = Int64(0) THEN <<>>
    ELSE <<MustNewConstMetric(instanceMemoryBytes, Float64(info.MemoryUsed), <<name, info.Release>>)>>

\* the body of the range loop of collectInstanceMemoryBytesWithData: what
\* it sends for one entry of the map
memoryMetric(name, info) ==
    IF info.MemoryUsed = Int64(0) THEN <<>>
    ELSE <<MustNewConstMetric(instanceMemoryBytes, Float64(info.MemoryUsed), <<name, info.Release>>)>>

RECURSIVE collectInstanceMemoryBytesWithData(_, _)
\* the readings collectInstanceMemoryBytesWithData sends; it always returns nil
collectInstanceMemoryBytesWithData(d, order) ==
    IF order = <<>> THEN <<>>
    ELSE memoryMetric(Head(order), d[Head(order)])
         \o collectInstanceMemoryBytesWithData(d, Tail(order))

\* a loop body that passes the release for both label values
cpuMetricByRelease(name, info) ==
    IF info.CPUCount = <<>> \/ ~Sscanf(info.CPUCount).ok THEN <<>>
    ELSE <<MustNewConstMetric(instanceCPUTotal, Sscanf(info.CPUCount).val, <<info.Release, info.Release>>)>>

\* the body of the range loop of collectInstanceCPUTotalWithData: what it
\* sends for one entry of the map
cpuMetric(name, info) ==
    IF info.CPUCount = <<>> \/ ~Sscanf(info.CPUCount).ok THEN <<>>
    ELSE <<MustNewConstMetric(instanceCPUTotal, Sscanf(info.CPUCount).val, <<name, info.Release>>)>>

RECURSIVE collectInstanceCPUTotalWithDataBreak(_, _)
\* a loop that ends at the first instance whose text does not scan, where
\* the code goes on with the next instance
collectInstanceCPUTotalWithDataBreak(d, order) ==
    IF order = <<>> THEN <<>>
    ELSE IF d[Head(order)].CPUCount # <<>> /\ ~Sscanf(d[Head(order)].CPUCount).ok THEN <<>>
    ELSE cpuMetric(Head(order), d[Head(order)])
         \o collectInstanceCPUTotalWithDataBreak(d, Tail(order))

RECURSIVE collectInstanceCPUTotalWithData(_, _)
\* the readings collectInstanceCPUTotalWithData sends; it always returns nil
collectInstanceCPUTotalWithData(d, order) ==
    IF order = <<>> THEN <<>>
    ELSE cpuMetric(Head(order), d[Head(order)])
         \o collectInstanceCPUTotalWithData(d, Tail(order))

\* a loop body that reads the first three samples of any longer list too
loadMetricAtLeast(name, info) ==
    IF Len(info.Load) < 3 THEN <<>>
    ELSE << MustNewConstMetric(instanceLoad1m, info.Load[1], <<name, info.Release>>),
            MustNewConstMetric(instanceLoad5m, info.Load[2], <<name, info.Release>>),
            MustNewConstMetric(instanceLoad15m, info.Load[3], <<name, info.Release>>) >>

\* the body of the range loop of collectInstanceLoadWithData: what it sends
\* for one entry of the map
loadMetric(name, info) ==
    IF Len(info.Load) # 3 THEN <<>>
    ELSE << MustNewConstMetric(instanceLoad1m, info.Load[1], <<name, info.Release>>),
            MustNewConstMetric(instanceLoad5m, info.Load[2], <<name, info.Release>>),
            MustNewConstMetric(instanceLoad15m, info.Load[3], <<name, info.Release>>) >>

RECURSIVE collectInstanceLoadWithData(_, _)
\* the readings collectInstanceLoadWithData sends; it always returns nil
collectInstanceLoadWithData(d, order) ==
    IF order = <<>> THEN <<>>
    ELSE loadMetric(Head(order), d[Head(order)])
         \o collectInstanceLoadWithData(d, Tail(order))

\* a collectError that reports the steady-state value
collectErrorZero == MustNewConstMetric(multipassError, 0, <<>>)

\* the reading collectError sends
collectError == MustNewConstMetric(multipassError, 1, <<>>)

(***************************************************************************)
(* multipassInfo: the outcome of one run of the command                    *)
(***************************************************************************)
NoError == [kind |-> "none", msg |-> ""]
\* "multipass info timed out after %v", c.timeout
TimeoutError(t) == [kind |-> "Timeout", msg |-> t]
\* "multipass info failed: %w: %s", err, stderr.String()
ExecutionFailure(text) == [kind |-> "ExecutionFailure", msg |-> text]
\* "error parsing JSON: %w; stdout=%s; stderr=%s"
ParseFailure(text) == [kind |-> "ParseFailure", msg |-> text]

\* context.WithTimeout(context.Background(), c.timeout): a deadline that is
\* not in the future yields a context that is already expired
WithTimeout(t) == IF t <= 0 THEN "DeadlineExceeded" ELSE "nil"

\* a multipassInfo that does not look at ctx.Err()
multipassInfoResultNoCtx(e, ctx, t, out, errText) ==
    IF e # "nil"
    THEN [err |-> ExecutionFailure(errText), data |-> EmptySnapshot]
    ELSE IF ~Unmarshal(out).ok
         THEN [err |-> ParseFailure(errText), data |-> EmptySnapshot]
         ELSE [err |-> NoError, data |-> Unmarshal(out).val]

\* what multipassInfo returns once cmd.Run has returned e
multipassInfoResult(e, ctx, t, out, errText) ==
    IF e # "nil"
    THEN IF ctx = "DeadlineExceeded"
         THEN [err |-> TimeoutError(t), data |-> EmptySnapshot]
         ELSE [err |-> ExecutionFailure(errText), data |-> EmptySnapshot]
    ELSE IF ~Unmarshal(out).ok
         THEN [err |-> ParseFailure(errText), data |-> EmptySnapshot]
         ELSE [err |-> NoError, data |-> Unmarshal(out).val]

\* a multipassInfo that runs the command again after an error
multipassInfoNextRetry(e) == IF e.kind # "none" THEN "call" ELSE "fetched"

\* where the caller continues once multipassInfo has its result: it returns
\* it, whatever it is
multipassInfoNext(e) == "fetched"

(***************************************************************************)
(* Collect                                                                 *)
(***************************************************************************)
\* what a fetch made right now would return on success
Live == Unmarshal(EncodeInfo(world)).val

\* a Collect whose steps fetch again instead of reusing the snapshot
CollectArgRefetch(fetched, live) == live

\* the snapshot Collect hands to each derivation step: the one it fetched
CollectArg(fetched, live) == fetched

\* the errors the derivation steps return to Collect: always nil
collectInstanceMetricErr(d) == FALSE
collectInstanceMemoryBytesWithDataErr(d) == FALSE
\* a CPU step that returns the scan error instead of skipping the instance
collectInstanceCPUTotalWithDataErrScan(d) ==
    \E n \in DOMAIN d : d[n].CPUCount # <<>> /\ ~Sscanf(d[n].CPUCount).ok

collectInstanceCPUTotalWithDataErr(d) == FALSE
collectInstanceLoadWithDataErr(d) == FALSE

\* a step of Collect: send the readings, then the error reading and return
\* when the step failed, else go on with the next step; a reading whose
\* construction panics is not sent and ends the process
Step(sent, failed, next) ==
    LET all == IF failed THEN sent \o <<collectError>> ELSE sent
        bad == {i \in 1..Len(all) : Panics(all[i])}
    IN  IF bad = {}
        THEN /\ ch' = ch \o all
             /\ pc' = IF failed THEN "done" ELSE next
        ELSE /\ ch' = ch \o SubSeq(all, 1, (CHOOSE i \in bad : \A j \in bad : i <= j) - 1)
             /\ pc' = "panicked"

(***************************************************************************)
(* LoadConfig.  A configuration file is missing, or is a YAML document:    *)
(* one that does not parse, an empty one, a scalar, or a mapping that      *)
(* gives each key of Config no node, a null, an integer, a string or a     *)
(* sequence.                                                               *)
(***************************************************************************)
\* the yaml keys of Config; the fields of the first two are int, the
\* others are string
Keys == {"port", "timeout_seconds", "metrics_path", "log_level"}
IntKeys == {"port", "timeout_seconds"}

\* the nodes a mapping can give a key: none, `key:`, `key: 3000`,
\* `key: abc`, `key: [a]`
Nodes ==
    { [tag |-> "absent", text |-> "", int |-> 0],
      [tag |-> "null", text |-> "", int |-> 0],
      [tag |-> "int", text |-> "3000", int |-> 3000],
      [tag |-> "str", text |-> "abc", int |-> 0],
      [tag |-> "seq", text |-> "", int |-> 0] }

Files ==
    { [kind |-> c, fields |-> [key \in Keys |-> [tag |-> "absent", text |-> "", int |-> 0]]]
        : c \in {"missing", "invalid", "empty", "scalar"} }
    \cup { [kind |-> "mapping", fields |-> f] : f \in [Keys -> Nodes] }

\* the Config literal LoadConfig starts from
Config ==
    [Port |-> 1986, MetricsPath |-> "/metrics", TimeoutSeconds |-> 5, LogLevel |-> "info"]

\* yaml decodes the node into a field of the kind of the key: a null
\* leaves the field as it is, an int field takes an integer, a string field
\* takes the text of any scalar, anything else is a type error
Fits(key, node) ==
    \/ node.tag \in {"absent", "null"}
    \/ key \in IntKeys /\ node.tag = "int"
    \/ key \notin IntKeys /\ node.tag \in {"int", "str"}

\* the field after the node was decoded into it
Decoded(key, node, old) ==
    IF node.tag \in {"absent", "null"} \/ ~Fits(key, node) THEN old
    ELSE IF key \in IntKeys THEN node.int ELSE node.text

\* yaml.Unmarshal(data, cfg): the error, and cfg as it leaves it
yamlUnmarshal(file, cfg) ==
    CASE file.kind = "invalid" -> [ok |-> FALSE, cfg |-> cfg]
      [] file.kind = "scalar" -> [ok |-> FALSE, cfg |-> cfg]
      [] file.kind = "empty" -> [ok |-> TRUE, cfg |-> cfg]
      [] file.kind = "mapping" ->
            [ok |-> \A key \in Keys : Fits(key, file.fields[key]),
             cfg |-> [Port |-> Decoded("port", file.fields["port"], cfg.Port),
                      MetricsPath |-> Decoded("metrics_path", file.fields["metrics_path"], cfg.MetricsPath),
                      TimeoutSeconds |-> Decoded("timeout_seconds", file.fields["timeout_seconds"], cfg.TimeoutSeconds),
                      LogLevel |-> Decoded("log_level", file.fields["log_level"], cfg.LogLevel)]]

\* the LoadConfig of before, whose default port was 8080
LoadConfigPort8080(file) ==
    LET cfg == [Config EXCEPT !.Port = 8080]
    IN  IF file.kind = "missing" THEN [cfg |-> <<cfg>>, loaded |-> FALSE, err |-> "nil"]
        ELSE IF ~yamlUnmarshal(file, cfg).ok
        THEN [cfg |-> <<>>, loaded |-> FALSE, err |-> "error parsing YAML"]
        ELSE [cfg |-> <<yamlUnmarshal(file, cfg).cfg>>, loaded |-> TRUE, err |-> "nil"]

\* LoadConfig(path): the *Config (empty for nil), loaded and the error
LoadConfig(file) ==
    IF file.kind = "missing" THEN [cfg |-> <<Config>>, loaded |-> FALSE, err |-> "nil"]
    ELSE IF ~yamlUnmarshal(file, Config).ok
    THEN [cfg |-> <<>>, loaded |-> FALSE, err |-> "error parsing YAML"]
    ELSE [cfg |-> <<yamlUnmarshal(file, Config).cfg>>, loaded |-> TRUE, err |-> "nil"]

\* the exporter runs with the configuration of a missing file
Configured ==
    [pc |-> "loaded",
     file |-> [kind |-> "missing", fields |-> [key \in Keys |-> [tag |-> "absent", text |-> "", int |-> 0]]],
     cfg |-> <<Config>>, loaded |-> FALSE, err |-> "nil"]

\* the locals of a goroutine that has not called Collect yet
IdleCall ==
    [pc |-> "idle", ctxErr |-> "nil", child |-> "none", exitCode |-> 0, stdout |-> JInvalid,
     stderr |-> "", runErr |-> "nil", err |-> NoError, data |-> EmptySnapshot, ch |-> <<>>,
     fetches |-> 0, spawns |-> 0]

\* the collector is constructed with a timeout of no seconds, whose
\* deadline is over at once, or with the longest timeout
Init ==
    /\ world \in Snapshots(WorldRecords)
    /\ timeout \in {0, MaxTimeout}
    /\ pc = "idle"
    /\ ctxErr = "nil"
    /\ child = "none"
    /\ exitCode = 0
    /\ stdout = JInvalid
    /\ stderr = ""
    /\ runErr = "nil"
    /\ err = NoError
    /\ data = EmptySnapshot
    /\ ch = <<>>
    /\ fetches = 0
    /\ spawns = 0
    /\ scrapes = 0
    /\ prevCh = <<>>
    /\ failures = 0
    /\ other = IdleCall
    /\ descs = <<>>
    /\ app = Configured

\* the collector is registered: the registry calls Describe and keeps the
\* descriptors it sends
MustRegister ==
    /\ pc = "idle"
    /\ descs = <<>>
    /\ descs' = Describe
    /\ UNCHANGED <<world, timeout, pc, ctxErr, child, exitCode, stdout, stderr, runErr,
                   err, data, ch, fetches, spawns, scrapes, prevCh, failures, other, app>>

\* the daemon's inventory changes while a scrape is under way: an instance
\* is launched, changes, or is purged
WorldChange ==
    /\ pc \in {"waiting", "fetched", "memory", "cpu", "load"}
    /\ \E n \in Names :
          \/ \E r \in WorldRecords \ (IF n \in DOMAIN world THEN {world[n]} ELSE {}) :
                world' = [m \in DOMAIN world \cup {n} |-> IF m = n THEN r ELSE world[m]]
          \/ /\ n \in DOMAIN world
             /\ world' = [m \in DOMAIN world \ {n} |-> world[m]]
    /\ UNCHANGED <<timeout, pc, ctxErr, child, exitCode, stdout, stderr, runErr,
                   err, data, ch, fetches, spawns, scrapes, prevCh, failures, other, descs, app>>

\* a Collect that remembers a failed fetch: after a failure it reports the
\* error again without calling multipassInfo
CollectSticky ==
    /\ pc \in {"idle", "done"}
    /\ descs # <<>>
    /\ scrapes < MaxScrapes
    /\ scrapes' = scrapes + 1
    /\ ch' = <<>>
    /\ fetches' = 0
    /\ spawns' = 0
    /\ IF pc = "done" /\ err.kind # "none"
       THEN pc' = "fetched" /\ UNCHANGED <<err, data>>
       ELSE pc' = "call" /\ err' = NoError /\ data' = EmptySnapshot
    /\ failures' = IF pc = "done" /\ err.kind # "none" THEN failures + 1 ELSE failures
    /\ UNCHANGED <<world, timeout, ctxErr, child, exitCode, stdout, stderr, runErr, prevCh, other, descs, app>>

\* the registry calls Collect of a collector it registered, with an empty
\* channel; Collect calls multipassInfo
Collect ==
    /\ pc \in {"idle", "done"}
    /\ descs # <<>>
    /\ scrapes < MaxScrapes
    /\ scrapes' = scrapes + 1
    /\ ch' = <<>>
    /\ fetches' = 0
    /\ spawns' = 0
    /\ err' = NoError
    /\ data' = EmptySnapshot
    /\ pc' = "call"
    /\ failures' = IF pc = "done" /\ err.kind # "none" THEN failures + 1 ELSE failures
    /\ UNCHANGED <<world, timeout, ctxErr, child, exitCode, stdout, stderr, runErr, prevCh, other, descs, app>>

\* multipassInfo begins: it creates its context, the command and the buffers
multipassInfoCalled ==
    /\ pc = "call"
    /\ fetches' = fetches + 1
    /\ ctxErr' = WithTimeout(timeout)
    /\ child' = "none"
    /\ exitCode' = 0
    /\ stdout' = JInvalid
    /\ stderr' = ""
    /\ runErr' = "nil"
    /\ pc' = "start"
    /\ UNCHANGED <<world, timeout, err, data, ch, spawns, scrapes, prevCh, failures, other, descs, app>>

\* cmd.Run: Start finds the context done and starts nothing
StartExpired ==
    /\ pc = "start"
    /\ ctxErr = "DeadlineExceeded"
    /\ runErr' = "ctx"
    /\ pc' = "returned"
    /\ UNCHANGED <<world, timeout, ctxErr, child, exitCode, stdout, stderr,
                   err, data, ch, fetches, spawns, scrapes, prevCh, failures, other, descs, app>>

\* cmd.Run: Start fails (the executable is not found, fork fails)
StartFails ==
    /\ pc = "start"
    /\ ctxErr = "nil"
    /\ runErr' = "start"
    /\ pc' = "returned"
    /\ UNCHANGED <<world, timeout, ctxErr, child, exitCode, stdout, stderr,
                   err, data, ch, fetches, spawns, scrapes, prevCh, failures, other, descs, app>>

\* cmd.Start in the place of cmd.Run: the child is started and the call
\* goes on without waiting for it
StartChildNoWait ==
    /\ pc = "start"
    /\ ctxErr = "nil"
    /\ child' = "running"
    /\ spawns' = spawns + 1
    /\ pc' = "returned"
    /\ UNCHANGED <<world, timeout, ctxErr, exitCode, stdout, stderr, runErr,
                   err, data, ch, fetches, scrapes, prevCh, failures, other, descs, app>>

\* cmd.Run: Start starts the child, Run waits for it
StartChild ==
    /\ pc = "start"
    /\ ctxErr = "nil"
    /\ child' = "running"
    /\ spawns' = spawns + 1
    /\ pc' = "waiting"
    /\ UNCHANGED <<world, timeout, ctxErr, exitCode, stdout, stderr, runErr,
                   err, data, ch, fetches, scrapes, prevCh, failures, other, descs, app>>

\* the child exits on its own, having written its output
ChildExits ==
    /\ child = "running"
    /\ child' = "exited"
    /\ \E o \in ChildOutputs(world) :
          /\ exitCode' = o.code
          /\ stdout' = o.out
          /\ stderr' = o.err
    /\ UNCHANGED <<world, timeout, pc, ctxErr, runErr, err, data, ch, fetches,
                   spawns, scrapes, prevCh, failures, other, descs, app>>

\* a deadline that belongs to the collector instead of the call: when it
\* passes, the context of the other goroutine's call is done as well and
\* its child is killed
DeadlineFiresShared ==
    /\ pc \in {"start", "waiting", "returned"}
    /\ ctxErr = "nil"
    /\ ctxErr' = "DeadlineExceeded"
    /\ child' = IF child = "running" THEN "killed" ELSE child
    /\ other' = IF other.pc \in {"start", "waiting", "returned"} /\ other.ctxErr = "nil"
                THEN [other EXCEPT !.ctxErr = "DeadlineExceeded",
                                   !.child = IF other.child = "running" THEN "killed" ELSE other.child]
                ELSE other
    /\ UNCHANGED <<world, timeout, pc, exitCode, stdout, stderr, runErr, err,
                   data, ch, fetches, spawns, scrapes, prevCh, failures, descs, app>>

\* the deadline of the context passes; a child still running is killed
DeadlineFires ==
    /\ pc \in {"start", "waiting", "returned"}
    /\ ctxErr = "nil"
    /\ ctxErr' = "DeadlineExceeded"
    /\ child' = IF child = "running" THEN "killed" ELSE child
    /\ UNCHANGED <<world, timeout, pc, exitCode, stdout, stderr, runErr, err,
                   data, ch, fetches, spawns, scrapes, prevCh, failures, other, descs, app>>

\* a Run that waits for the child to exit on its own, as it does for a
\* command that was not created with the context
RunReturnsExitedOnly ==
    /\ pc = "waiting"
    /\ child = "exited"
    /\ runErr' = IF exitCode # 0 THEN "exit" ELSE "nil"
    /\ pc' = "returned"
    /\ UNCHANGED <<world, timeout, ctxErr, child, exitCode, stdout, stderr,
                   err, data, ch, fetches, spawns, scrapes, prevCh, failures, other, descs, app>>

\* cmd.Run returns once the child is gone
RunReturns ==
    /\ pc = "waiting"
    /\ child \in {"exited", "killed"}
    /\ runErr' = IF child = "killed" THEN "killed"
                 ELSE IF exitCode # 0 THEN "exit" ELSE "nil"
    /\ pc' = "returned"
    /\ UNCHANGED <<world, timeout, ctxErr, child, exitCode, stdout, stderr,
                   err, data, ch, fetches, spawns, scrapes, prevCh, failures, other, descs, app>>

\* multipassInfo looks at the error of cmd.Run and at ctx.Err(), decodes
\* stdout and returns; the deferred cancel releases the context
multipassInfoReturns ==
    /\ pc = "returned"
    /\ LET r == multipassInfoResult(runErr, ctxErr, timeout, stdout, stderr)
       IN  /\ err' = r.err
           /\ data' = r.data
           /\ pc' = multipassInfoNext(r.err)
    /\ ctxErr' = IF ctxErr = "nil" THEN "Canceled" ELSE ctxErr
    /\ UNCHANGED <<world, timeout, child, exitCode, stdout, stderr, runErr, ch,
                   fetches, spawns, scrapes, prevCh, failures, other, descs, app>>

\* Collect, the fetch failed: the error reading and nothing else
CollectFetchFailed ==
    /\ pc = "fetched"
    /\ err.kind # "none"
    /\ Step(<<>>, TRUE, "done")
    /\ UNCHANGED <<world, timeout, ctxErr, child, exitCode, stdout, stderr,
                   runErr, err, data, fetches, spawns, scrapes, prevCh, failures, other, descs, app>>

\* a loop over instanceMetrics that sends only the counts that are not zero
CollectCountsNonZero ==
    /\ pc = "fetched"
    /\ err.kind = "none"
    /\ LET d == CollectArg(data, Live)
           rows == [i \in 1..Len(instanceMetrics) |-> collectInstanceMetric(d, instanceMetrics[i])]
       IN  Step(SelectSeq(rows, LAMBDA r : r.value # 0), collectInstanceMetricErr(d), "memory")
    /\ UNCHANGED <<world, timeout, ctxErr, child, exitCode, stdout, stderr,
                   runErr, err, data, fetches, spawns, scrapes, prevCh, failures, other, descs, app>>

\* Collect, the loop over instanceMetrics
CollectCounts ==
    /\ pc = "fetched"
    /\ err.kind = "none"
    /\ LET d == CollectArg(data, Live)
       IN  Step([i \in 1..Len(instanceMetrics) |-> collectInstanceMetric(d, instanceMetrics[i])],
                collectInstanceMetricErr(d), "memory")
    /\ UNCHANGED <<world, timeout, ctxErr, child, exitCode, stdout, stderr,
                   runErr, err, data, fetches, spawns, scrapes, prevCh, failures, other, descs, app>>

\* a memory step that deletes from the map the entries it skips
CollectMemoryDeletes ==
    /\ pc = "memory"
    /\ LET d == CollectArg(data, Live)
       IN  /\ \E order \in Orders(DOMAIN d) :
                 Step(collectInstanceMemoryBytesWithData(d, order),
                      collectInstanceMemoryBytesWithDataErr(d), "cpu")
           /\ data' = [n \in {m \in DOMAIN data : data[m].MemoryUsed # Int64(0)} |-> data[n]]
    /\ UNCHANGED <<world, timeout, ctxErr, child, exitCode, stdout, stderr,
                   runErr, err, fetches, spawns, scrapes, prevCh, failures, other, descs, app>>

\* Collect, the call of collectInstanceMemoryBytesWithData
CollectMemory ==
    /\ pc = "memory"
    /\ LET d == CollectArg(data, Live)
       IN  \E order \in Orders(DOMAIN d) :
              Step(collectInstanceMemoryBytesWithData(d, order),
                   collectInstanceMemoryBytesWithDataErr(d), "cpu")
    /\ UNCHANGED <<world, timeout, ctxErr, child, exitCode, stdout, stderr,
                   runErr, err, data, fetches, spawns, scrapes, prevCh, failures, other, descs, app>>

\* a Collect whose last two blocks are swapped: the load step comes
\* before the cpu step
CollectCPUAfterLoad ==
    /\ pc = "cpu"
    /\ LET d == CollectArg(data, Live)
       IN  \E order \in Orders(DOMAIN d) :
              Step(collectInstanceLoadWithData(d, order) \o collectInstanceCPUTotalWithData(d, order),
                   collectInstanceCPUTotalWithDataErr(d), "done")
    /\ UNCHANGED <<world, timeout, ctxErr, child, exitCode, stdout, stderr,
                   runErr, err, data, fetches, spawns, scrapes, prevCh, failures, other, descs, app>>

\* Collect, the call of collectInstanceCPUTotalWithData
CollectCPU ==
    /\ pc = "cpu"
    /\ LET d == CollectArg(data, Live)
       IN  \E order \in Orders(DOMAIN d) :
              Step(collectInstanceCPUTotalWithData(d, order),
                   collectInstanceCPUTotalWithDataErr(d), "load")
    /\ UNCHANGED <<world, timeout, ctxErr, child, exitCode, stdout, stderr,
                   runErr, err, data, fetches, spawns, scrapes, prevCh, failures, other, descs, app>>

\* Collect, the call of collectInstanceLoadWithData, and the return
CollectLoad ==
    /\ pc = "load"
    /\ LET d == CollectArg(data, Live)
       IN  \E order \in Orders(DOMAIN d) :
              Step(collectInstanceLoadWithData(d, order),
                   collectInstanceLoadWithDataErr(d), "done")
    /\ UNCHANGED <<world, timeout, ctxErr, child, exitCode, stdout, stderr,
                   runErr, err, data, fetches, spawns, scrapes, prevCh, failures, other, descs, app>>

Next ==
    \/ MustRegister
    \/ WorldChange
    \/ Collect
    \/ multipassInfoCalled
    \/ StartExpired
    \/ StartFails
    \/ StartChild
    \/ ChildExits
    \/ DeadlineFires
    \/ RunReturns
    \/ multipassInfoReturns
    \/ CollectFetchFailed
    \/ CollectCounts
    \/ CollectMemory
    \/ CollectCPU
    \/ CollectLoad

Spec == Init /\ [][Next]_vars

(***************************************************************************)
(* The derivation alone: Collect right after a fetch that returned a       *)
(* snapshot, for every snapshot over DeriveRecords.                        *)
(***************************************************************************)
Fetched(d) ==
    /\ data = d
    /\ world = d
    /\ timeout = 5
    /\ pc = "fetched"
    /\ ctxErr = "Canceled"
    /\ child = "exited"
    /\ exitCode = 0
    /\ stdout = EncodeInfo(d)
    /\ stderr = ""
    /\ runErr = "nil"
    /\ err = NoError
    /\ ch = <<>>
    /\ fetches = 1
    /\ spawns = 1
    /\ scrapes = 1
    /\ prevCh = <<>>
    /\ failures = 0
    /\ other = IdleCall
    /\ descs = Describe
    /\ app = Configured

InitDerive == \E d \in Snapshots(DeriveRecords) : Fetched(d)

NextDerive ==
    \/ CollectCounts
    \/ CollectMemory
    \/ CollectCPU
    \/ CollectLoad

SpecDerive == InitDerive /\ [][NextDerive]_vars

(***************************************************************************)
(* The derivation run twice over the same snapshot                         *)
(***************************************************************************)
InitTwice == \E d \in Snapshots(WorldRecords) : Fetched(d)

\* the derivation steps of Collect are run once more over the same data
DeriveAgain ==
    /\ pc = "done"
    /\ prevCh = <<>>
    /\ prevCh' = ch
    /\ ch' = <<>>
    /\ pc' = "fetched"
    /\ UNCHANGED <<world, timeout, ctxErr, child, exitCode, stdout, stderr,
                   runErr, err, data, fetches, spawns, scrapes, failures, other, descs, app>>

NextTwice ==
    \/ CollectCounts
    \/ CollectMemory
    \/ CollectCPU
    \/ CollectLoad
    \/ DeriveAgain

SpecTwice == InitTwice /\ [][NextTwice]_vars

(***************************************************************************)
(* Two goroutines call Collect on the same collector.  The variables pc,   *)
(* ctxErr, child, exitCode, stdout, stderr, runErr, err, data, ch, fetches *)
(* and spawns are the locals of the call of the goroutine that takes the   *)
(* next step; other holds the locals of the call of the goroutine that     *)
(* waits.  The collector's fields (timeout, the descriptors) are only read *)
(* by a call and the inventory belongs to the daemon.                      *)
(***************************************************************************)
\* the scheduler runs the other goroutine
Switch ==
    /\ other' = [pc |-> pc, ctxErr |-> ctxErr, child |-> child, exitCode |-> exitCode,
                 stdout |-> stdout, stderr |-> stderr, runErr |-> runErr, err |-> err,
                 data |-> data, ch |-> ch, fetches |-> fetches, spawns |-> spawns]
    /\ pc' = other.pc
    /\ ctxErr' = other.ctxErr
    /\ child' = other.child
    /\ exitCode' = other.exitCode
    /\ stdout' = other.stdout
    /\ stderr' = other.stderr
    /\ runErr' = other.runErr
    /\ err' = other.err
    /\ data' = other.data
    /\ ch' = other.ch
    /\ fetches' = other.fetches
    /\ spawns' = other.spawns
    /\ UNCHANGED <<world, timeout, scrapes, prevCh, failures, descs, app>>

\* both goroutines have entered Collect; the inventory does not change
\* while the two calls run
InitOverlap ==
    /\ world \in UNION {[S -> WorldRecords] : S \in SUBSET {AllNames[i] : i \in 1..MaxOverlapInstances}}
    /\ timeout \in {0, MaxTimeout}
    /\ pc = "call"
    /\ ctxErr = "nil"
    /\ child = "none"
    /\ exitCode = 0
    /\ stdout = JInvalid
    /\ stderr = ""
    /\ runErr = "nil"
    /\ err = NoError
    /\ data = EmptySnapshot
    /\ ch = <<>>
    /\ fetches = 0
    /\ spawns = 0
    /\ scrapes = 2
    /\ prevCh = <<>>
    /\ failures = 0
    /\ other = [IdleCall EXCEPT !.pc = "call"]
    /\ descs = Describe
    /\ app = Configured

NextOverlap ==
    \/ Switch
    \/ multipassInfoCalled
    \/ StartExpired
    \/ StartFails
    \/ StartChild
    \/ ChildExits
    \/ DeadlineFires
    \/ RunReturns
    \/ multipassInfoReturns
    \/ CollectFetchFailed
    \/ CollectCounts
    \/ CollectMemory
    \/ CollectCPU
    \/ CollectLoad

SpecOverlap == InitOverlap /\ [][NextOverlap]_vars

(***************************************************************************)
(* One Collect call from its start to its end, under the fairness of the   *)
(* scheduler and of the timer.                                             *)
(***************************************************************************)
\* the registry has called Collect; the inventory does not change while
\* the call runs
InitFair ==
    /\ world \in UNION {[S -> WorldRecords] : S \in SUBSET {AllNames[i] : i \in 1..MaxOverlapInstances}}
    /\ timeout \in {0, MaxTimeout}
    /\ pc = "call"
    /\ ctxErr = "nil"
    /\ child = "none"
    /\ exitCode = 0
    /\ stdout = JInvalid
    /\ stderr = ""
    /\ runErr = "nil"
    /\ err = NoError
    /\ data = EmptySnapshot
    /\ ch = <<>>
    /\ fetches = 0
    /\ spawns = 0
    /\ scrapes = 1
    /\ prevCh = <<>>
    /\ failures = 0
    /\ other = IdleCall
    /\ descs = Describe
    /\ app = Configured

\* a step of the goroutine that runs Collect: every step of the call but
\* the two that are not the goroutine's own, the exit of the child and the
\* deadline
CallStep ==
    \/ multipassInfoCalled
    \/ StartExpired
    \/ StartFails
    \/ StartChild
    \/ RunReturns
    \/ multipassInfoReturns
    \/ CollectFetchFailed
    \/ CollectCounts
    \/ CollectMemory
    \/ CollectCPU
    \/ CollectLoad

NextFair ==
    \/ CallStep
    \/ ChildExits
    \/ DeadlineFires

\* the scheduler keeps running a goroutine that can take a step and the
\* runtime fires the timer of the context; nothing makes the child exit
SpecFair == InitFair /\ [][NextFair]_vars /\ WF_vars(CallStep) /\ WF_vars(DeadlineFires)

(***************************************************************************)
(* LoadConfig called on a path, for every file of Files                    *)
(***************************************************************************)
InitConfig ==
    /\ world = EmptySnapshot
    /\ timeout = 5
    /\ pc = "idle"
    /\ ctxErr = "nil"
    /\ child = "none"
    /\ exitCode = 0
    /\ stdout = JInvalid
    /\ stderr = ""
    /\ runErr = "nil"
    /\ err = NoError
    /\ data = EmptySnapshot
    /\ ch = <<>>
    /\ fetches = 0
    /\ spawns = 0
    /\ scrapes = 0
    /\ prevCh = <<>>
    /\ failures = 0
    /\ other = IdleCall
    /\ descs = <<>>
    /\ \E file \in Files :
          app = [pc |-> "start", file |-> file, cfg |-> <<>>, loaded |-> FALSE, err |-> "nil"]

\* App.LoadConfiguration calls LoadConfig on the path it was given
LoadConfiguration ==
    /\ app.pc = "start"
    /\ LET r == LoadConfig(app.file)
       IN  app' = [app EXCEPT !.pc = "loaded", !.cfg = r.cfg, !.loaded = r.loaded, !.err = r.err]
    /\ UNCHANGED <<world, timeout, pc, ctxErr, child, exitCode, stdout, stderr, runErr,
                   err, data, ch, fetches, spawns, scrapes, prevCh, failures, other, descs>>

NextConfig == LoadConfiguration

SpecConfig == InitConfig /\ [][NextConfig]_vars

(***************************************************************************)
(* Properties                                                              *)
(***************************************************************************)
Returned == pc \in {"fetched", "memory", "cpu", "load", "done"}
Succeeded == Returned /\ err.kind = "none"
Failed == Returned /\ err.kind # "none"

\* the value of the reading r is what the snapshot d gives for r's metric
ReadingFrom(r, d) ==
    LET name == r.labels[1]
    IN  /\ r.desc # multipassError
        /\ r.desc = instanceTotal => r.value = Cardinality(DOMAIN d)
        /\ r.desc = instanceRunning => r.value = Cardinality({n \in DOMAIN d : d[n].State = "Running"})
        /\ r.desc = instanceStopped => r.value = Cardinality({n \in DOMAIN d : d[n].State = "Stopped"})
        /\ r.desc = instanceDeleted => r.value = Cardinality({n \in DOMAIN d : d[n].State = "Deleted"})
        /\ r.desc = instanceSuspended => r.value = Cardinality({n \in DOMAIN d : d[n].State = "Suspended"})
        /\ r.desc \notin CountDescs =>
              /\ name \in DOMAIN d
              /\ r.labels[2] = d[name].Release
              /\ r.desc = instanceMemoryBytes => r.value = Float64(d[name].MemoryUsed)
              /\ r.desc = instanceCPUTotal => r.value = Sscanf(d[name].CPUCount).val
              /\ r.desc = instanceLoad1m => r.value = d[name].Load[1]
              /\ r.desc = instanceLoad5m => r.value = d[name].Load[2]
              /\ r.desc = instanceLoad15m => r.value = d[name].Load[3]

\* C1: a Collect call runs multipassInfo exactly once, and every reading it
\* sends after a successful fetch is computed from the snapshot that this one
\* fetch returned, whatever the inventory has become in the meantime.
C1_OneFetchOneSnapshot ==
    /\ fetches <= 1
    /\ Returned => fetches = 1
    /\ Succeeded => \A i \in 1..Len(ch) : ReadingFrom(ch[i], data)

\* C1 witness: a successful scrape is complete, it sent per-instance
\* readings, and the inventory is no longer the one that was fetched.
C1_Witness ==
    /\ pc = "done"
    /\ err.kind = "none"
    /\ fetches = 1
    /\ Len(ch) > 5
    /\ Live # data

\* C2: a Collect call whose fetch failed sends exactly one reading, the
\* multipass_error indicator with value 1 and no labels.
C2_FailedScrapeSendsOnlyError ==
    Failed =>
       /\ pc \in {"fetched", "done"}
       /\ pc = "fetched" => ch = <<>>
       /\ pc = "done" => ch = <<[desc |-> multipassError, value |-> 1, labels |-> <<>>]>>

\* C2 witness: failed scrapes are complete.
C2_Witness ==
    /\ pc = "done"
    /\ err.kind \in {"Timeout", "ExecutionFailure", "ParseFailure"}
    /\ Len(ch) = 1

C4_ErrorGaugeAlwaysReported ==
    pc = "done" =>
       /\ err.kind # "none" =>
             \E i \in 1..Len(ch) : ch[i].desc = multipassError /\ ch[i].value = 1
       /\ err.kind = "none" =>
             \E i \in 1..Len(ch) : ch[i].desc = multipassError /\ ch[i].value = 0

C6_OwnNonZeroExitIsExecutionFailure ==
    (Returned /\ child = "exited" /\ exitCode # 0) =>
       /\ err.kind = "ExecutionFailure"
       /\ err.msg = stderr

\* the members of an instance object that are present have the JSON type
\* of the Go field, or are null
WellTyped(o) ==
    \A key \in DOMAIN o :
       /\ key \in {"state", "release", "cpu_count"} => o[key].k \in {"str", "null"}
       /\ key = "memory" =>
             /\ o[key].k \in {"obj", "null"}
             /\ o[key].k = "obj" => \A m \in DOMAIN o[key].v : o[key].v[m].k \in {"num", "null"}
       /\ key = "load" =>
             /\ o[key].k \in {"arr", "null"}
             /\ o[key].k = "arr" => \A i \in 1..Len(o[key].v) : o[key].v[i].k \in {"num", "null"}

\* the expected schema: an object with an info object that maps every
\* instance name to an instance object
SchemaOK(j) ==
    /\ j.k = "obj"
    /\ "info" \in DOMAIN j.v
    /\ j.v["info"].k = "obj"
    /\ \A n \in DOMAIN j.v["info"].v :
          /\ j.v["info"].v[n].k = "obj"
          /\ WellTyped(j.v["info"].v[n].v)

\* some value of the document has a JSON type its place does not allow
TypeConflict(j) ==
    \/ j.k \notin {"obj", "null"}
    \/ /\ j.k = "obj"
       /\ "info" \in DOMAIN j.v
       /\ \/ j.v["info"].k \notin {"obj", "null"}
          \/ /\ j.v["info"].k = "obj"
             /\ \E n \in DOMAIN j.v["info"].v :
                   \/ j.v["info"].v[n].k \notin {"obj", "null"}
                   \/ /\ j.v["info"].v[n].k = "obj"
                      /\ ~WellTyped(j.v["info"].v[n].v)

\* the document leaves the Info map nil
NoInfo(j) == j.k = "null" \/ (j.k = "obj" /\ ("info" \notin DOMAIN j.v \/ j.v["info"].k = "null"))

C8_ExactlyOneChild ==
    Returned => spawns = 1

\* C8 amended: a call of multipassInfo starts at most one child process and
\* never runs the command again after an error; it starts exactly one unless
\* cmd.Run fails before starting it, because the context is already expired
\* (always so for a timeout that is not positive) or the executable cannot
\* be started.
C8_AtMostOneChildNoRetry ==
    /\ spawns <= 1
    /\ Returned =>
          /\ fetches = 1
          /\ spawns = 1 <=> runErr \notin {"ctx", "start"}
          /\ timeout <= 0 => spawns = 0

\* C8 witness: the child was killed at the deadline, the Timeout error was
\* reported, and the scrape ended with that one child.
C8_Witness ==
    /\ pc = "done"
    /\ err.kind = "Timeout"
    /\ child = "killed"
    /\ spawns = 1

\* C9: a second run of the derivation steps over the same snapshot sends
\* the same readings in the same order as the first run.
C9_SameSequenceTwice ==
    (pc = "done" /\ prevCh # <<>>) => ch = prevCh

\* the value of the reading of ch with descriptor desc
CountOf(desc) == (CHOOSE r \in {ch[i] : i \in 1..Len(ch)} : r.desc = desc).value

FourStates == {"Running", "Stopped", "Deleted", "Suspended"}

\* C10: the four per-state counts sum to at most the total, to exactly the
\* total when every instance is in one of the four states, and the total
\* exceeds the sum by the number of instances in any other state.
C10_StateCountsWithinTotal ==
    (Succeeded /\ pc # "fetched") =>
       LET sum == CountOf(instanceRunning) + CountOf(instanceStopped)
                  + CountOf(instanceDeleted) + CountOf(instanceSuspended)
           total == CountOf(instanceTotal)
           others == {n \in DOMAIN data : data[n].State \notin FourStates}
       IN  /\ sum <= total
           /\ others = {} => sum = total
           /\ total - sum = Cardinality(others)
           /\ total = Cardinality(DOMAIN data)

\* C10 witness: the counts were sent for a snapshot that holds an instance
\* in one of the four states and an instance in another state.
C10_Witness ==
    /\ pc = "done"
    /\ err.kind = "none"
    /\ \E n \in DOMAIN data : data[n].State \in FourStates
    /\ \E n \in DOMAIN data : data[n].State \notin FourStates /\ data[n].State # ""
    /\ CountOf(instanceTotal) = 2

\* C11: for each of the state literals Running, Stopped, Deleted and
\* Suspended, the count reading equals the number of instance records whose
\* state string is exactly that literal (no case folding, no other
\* normalisation), and is 0 when no record has the state.
C11_StateCountIsExactMatch ==
    (Succeeded /\ pc # "fetched") =>
       LET exact(S) == Cardinality({n \in DOMAIN data : data[n].State = S})
       IN  /\ CountOf(instanceRunning) = exact("Running")
           /\ CountOf(instanceStopped) = exact("Stopped")
           /\ CountOf(instanceDeleted) = exact("Deleted")
           /\ CountOf(instanceSuspended) = exact("Suspended")
           /\ \A S \in FourStates :
                 (\A n \in DOMAIN data : data[n].State # S) => exact(S) = 0

\* C11 witness: the counts were sent for a snapshot with one instance in
\* state Running and one in state running; the running count is 1 and the
\* deleted count is 0.
C11_Witness ==
    /\ pc = "done"
    /\ err.kind = "none"
    /\ \E n \in DOMAIN data : data[n].State = "Running"
    /\ \E n \in DOMAIN data : data[n].State = "running"
    /\ CountOf(instanceRunning) = 1
    /\ CountOf(instanceDeleted) = 0

\* C12: the total instance count reading equals the number of entries of
\* the snapshot mapping, whatever the states and the other fields of the
\* entries are.
C12_TotalIsNumberOfEntries ==
    (Succeeded /\ pc # "fetched") =>
       /\ Cardinality({i \in 1..Len(ch) : ch[i].desc = instanceTotal}) = 1
       /\ \A i \in 1..Len(ch) :
             ch[i].desc = instanceTotal =>
                /\ ch[i].value = Cardinality(DOMAIN data)
                /\ ch[i].labels = <<>>

\* C12 witness: the total was sent as 2 for a snapshot of two entries, one
\* of them the zero record (empty state, no memory, no cpu count, no load)
\* and the other in a state that has a count of its own.
C12_Witness ==
    /\ pc = "done"
    /\ err.kind = "none"
    /\ Cardinality(DOMAIN data) = 2
    /\ \E n \in DOMAIN data : data[n] = ZeroInfoOutput
    /\ \E n \in DOMAIN data : data[n].State = "Deleted"
    /\ CountOf(instanceTotal) = 2

\* the memory readings of ch that carry the instance name n
MemoryReadingsOf(n) ==
    {i \in 1..Len(ch) : ch[i].desc = instanceMemoryBytes /\ ch[i].labels[1] = n}

\* the memory step of the current derivation is over
MemoryDone == Succeeded /\ pc \in {"cpu", "load", "done"}

\* C13 as stated: an instance whose memoryUsedBytes is not 0 gets exactly
\* one memory reading, whose value equals memoryUsedBytes and whose labels
\* are its name and release; an instance whose memoryUsedBytes is 0 gets
\* none; an empty snapshot yields no memory reading and no error.
C13_MemoryReadingEqualsUsedBytes ==
    MemoryDone =>
       /\ \A n \in DOMAIN data :
             /\ data[n].MemoryUsed = Int64(0) => MemoryReadingsOf(n) = {}
             /\ data[n].MemoryUsed # Int64(0) =>
                   /\ Cardinality(MemoryReadingsOf(n)) = 1
                   /\ \A i \in MemoryReadingsOf(n) :
                         /\ ch[i].value = data[n].MemoryUsed
                         /\ ch[i].labels = <<n, data[n].Release>>
       /\ \A i \in 1..Len(ch) : ch[i].desc = instanceMemoryBytes => ch[i].labels[1] \in DOMAIN data
       /\ \A i \in 1..Len(ch) : ch[i].desc # multipassError

\* the int64 m + k for a small k
Plus(m, k) ==
    IF m.lo + k >= Base THEN Int64Of(m.hi + 1, m.lo + k - Base)
    ELSE IF m.lo + k < 0 THEN Int64Of(m.hi - 1, m.lo + k + Base)
    ELSE Int64Of(m.hi, m.lo + k)

\* r is the float64 nearest to the int64 m: m itself when its magnitude is
\* at most 2^53 or it is even, else the neighbour that is a multiple of 4
NearestFloat64(r, m) ==
    IF (0 - Half <= m.hi /\ m.hi < Half) \/ m.lo % 2 = 0
    THEN r = m
    ELSE r \in {Plus(m, 0 - 1), Plus(m, 1)} /\ r.lo % 4 = 0

\* C13 amended: an instance whose memoryUsedBytes is not 0 gets exactly one
\* memory reading, whose value is memoryUsedBytes converted to float64
\* (memoryUsedBytes itself up to 2^53 in magnitude, the nearest float64
\* beyond) and whose labels are its name and release; an instance whose
\* memoryUsedBytes is 0 gets none; an empty snapshot yields no memory
\* reading and no error.
C13_MemoryReadingIsFloat64OfUsedBytes ==
    MemoryDone =>
       /\ \A n \in DOMAIN data :
             /\ data[n].MemoryUsed = Int64(0) => MemoryReadingsOf(n) = {}
             /\ data[n].MemoryUsed # Int64(0) =>
                   /\ Cardinality(MemoryReadingsOf(n)) = 1
                   /\ \A i \in MemoryReadingsOf(n) :
                         /\ NearestFloat64(ch[i].value, data[n].MemoryUsed)
                         /\ ch[i].labels = <<n, data[n].Release>>
       /\ \A i \in 1..Len(ch) : ch[i].desc = instanceMemoryBytes => ch[i].labels[1] \in DOMAIN data
       /\ \A i \in 1..Len(ch) : ch[i].desc # multipassError

\* C13 witness: the scrape is complete for a snapshot with an instance that
\* uses 2^53 + 1 bytes, read as 2^53, and an instance that uses -1 bytes,
\* read as -1.
C13_Witness ==
    /\ pc = "done"
    /\ err.kind = "none"
    /\ \E n \in DOMAIN data :
          /\ data[n].MemoryUsed = Int64Of(Half, 1)
          /\ \E i \in MemoryReadingsOf(n) : ch[i].value = Int64Of(Half, 0)
    /\ \E n \in DOMAIN data :
          /\ data[n].MemoryUsed = Int64(0 - 1)
          /\ \E i \in MemoryReadingsOf(n) : ch[i].value = Int64(0 - 1)

\* the cpu-count readings of ch that carry the instance name n
CPUReadingsOf(n) ==
    {i \in 1..Len(ch) : ch[i].desc = instanceCPUTotal /\ ch[i].labels[1] = n}

\* the cpu step of the current derivation is over
CPUDone == Succeeded /\ pc \in {"load", "done"}

\* the text is an integer: an optional sign, then digits, and nothing else
IsInteger(text) ==
    LET signed == text # <<>> /\ Head(text) \in {"+", "-"}
        digits == IF signed THEN Tail(text) ELSE text
    IN  digits # <<>> /\ \A i \in 1..Len(digits) : IsDigit(digits[i])

\* the integer that the digits text[p..q] and the sign before them denote
Denoted(text, p, q) ==
    IF p > 1 /\ text[p - 1] = "-" THEN 0 - ScanDigits(SubSeq(text, p, q), 0)
    ELSE ScanDigits(SubSeq(text, p, q), 0)

\* C14: an instance gets a cpu-count reading if and only if its cpuCount
\* text is an integer, and then the value is that integer and the labels
\* are its name and release; no error is returned.
C14_CPUReadingIffTextIsInteger ==
    CPUDone =>
       /\ \A n \in DOMAIN data :
             /\ ~IsInteger(data[n].CPUCount) => CPUReadingsOf(n) = {}
             /\ IsInteger(data[n].CPUCount) =>
                   /\ Cardinality(CPUReadingsOf(n)) = 1
                   /\ \A i \in CPUReadingsOf(n) :
                         /\ ch[i].value = Denoted(data[n].CPUCount, 1, Len(data[n].CPUCount))
                            \/ ch[i].value = Denoted(data[n].CPUCount, 2, Len(data[n].CPUCount))
                         /\ ch[i].labels = <<n, data[n].Release>>
       /\ \A i \in 1..Len(ch) : ch[i].desc # multipassError

\* the load readings of ch that carry the instance name n
LoadReadingsOf(n) ==
    {i \in 1..Len(ch) : ch[i].desc \in LoadDescs /\ ch[i].labels[1] = n}

\* C15: an instance whose load list has exactly 3 samples gets exactly three
\* load readings, sent one after the other: load_1m with sample 0, load_5m
\* with sample 1 and load_15m with sample 2, each labelled with its name and
\* release; an instance whose list is absent or has any other length gets
\* no load reading.
C15_ThreeLoadReadingsIffThreeSamples ==
    (Succeeded /\ pc = "done") =>
       /\ \A n \in DOMAIN data :
             /\ Len(data[n].Load) # 3 => LoadReadingsOf(n) = {}
             /\ Len(data[n].Load) = 3 =>
                   /\ Cardinality(LoadReadingsOf(n)) = 3
                   /\ \E i \in LoadReadingsOf(n) :
                         /\ LoadReadingsOf(n) = {i, i + 1, i + 2}
                         /\ ch[i] = [desc |-> instanceLoad1m, value |-> data[n].Load[1],
                                      labels |-> <<n, data[n].Release>>]
                         /\ ch[i + 1] = [desc |-> instanceLoad5m, value |-> data[n].Load[2],
                                          labels |-> <<n, data[n].Release>>]
                         /\ ch[i + 2] = [desc |-> instanceLoad15m, value |-> data[n].Load[3],
                                          labels |-> <<n, data[n].Release>>]
       /\ \A i \in 1..Len(ch) : ch[i].desc \in LoadDescs => ch[i].labels[1] \in DOMAIN data
       /\ \A i \in 1..Len(ch) : ch[i].desc # multipassError

\* C15 witness: the scrape is complete for a snapshot with an instance of
\* three load samples, which has its three readings, and an instance of
\* four load samples, which has none.
C15_Witness ==
    /\ pc = "done"
    /\ err.kind = "none"
    /\ \E n \in DOMAIN data :
          /\ data[n].Load = <<10, 20, 30>>
          /\ Cardinality(LoadReadingsOf(n)) = 3
    /\ \E n \in DOMAIN data :
          /\ Len(data[n].Load) = 4
          /\ LoadReadingsOf(n) = {}

PerInstanceDescs == {instanceMemoryBytes, instanceCPUTotal} \cup LoadDescs

\* the reading is a per-instance reading of value zero
ZeroReading(r) ==
    /\ r.desc \in PerInstanceDescs
    /\ IF r.desc = instanceMemoryBytes THEN r.value = Int64(0) ELSE r.value = 0

C17_OneReadingPerCountMetric ==
    (Succeeded /\ pc # "fetched") =>
       \A desc \in CountDescs :
          Cardinality({i \in 1..Len(ch) : ch[i].desc = desc}) = 1

\* C17 witness: a scrape whose fetch returned the empty snapshot is
\* complete and sent the five counts, all 0, and nothing else.
C17_Witness ==
    /\ pc = "done"
    /\ err.kind = "none"
    /\ data = EmptySnapshot
    /\ Len(ch) = 5
    /\ \A i \in 1..Len(ch) : ch[i].desc \in CountDescs /\ ch[i].value = 0

\* the snapshot is the fixture: one Running instance that uses 512MB and
\* one Stopped instance that uses 256MB
IsFixture(d) ==
    /\ Cardinality(DOMAIN d) = 2
    /\ \E n \in DOMAIN d : d[n].State = "Running" /\ d[n].MemoryUsed = Int64(536870912)
    /\ \E n \in DOMAIN d : d[n].State = "Stopped" /\ d[n].MemoryUsed = Int64(268435456)

\* C18: a complete successful scrape sent 5 readings, plus one for each
\* instance whose memoryUsedBytes is not 0, plus one for each instance
\* whose cpuCount text is an integer, plus 3 for each instance with exactly
\* 3 load samples; for the fixture the counts are total 2, running 1,
\* stopped 1, deleted 0, suspended 0 and the memory readings are 536870912
\* and 268435456.
C18_NumberOfReadings ==
    (Succeeded /\ pc = "done") =>
       /\ Len(ch) = 5 + Cardinality({n \in DOMAIN data : data[n].MemoryUsed # Int64(0)})
                      + Cardinality({n \in DOMAIN data : IsInteger(data[n].CPUCount)})
                      + 3 * Cardinality({n \in DOMAIN data : Len(data[n].Load) = 3})
       /\ IsFixture(data) =>
             /\ CountOf(instanceTotal) = 2
             /\ CountOf(instanceRunning) = 1
             /\ CountOf(instanceStopped) = 1
             /\ CountOf(instanceDeleted) = 0
             /\ CountOf(instanceSuspended) = 0
             /\ {ch[i].value : i \in {j \in 1..Len(ch) : ch[j].desc = instanceMemoryBytes}}
                   = {Int64(536870912), Int64(268435456)}
             /\ Cardinality({j \in 1..Len(ch) : ch[j].desc = instanceMemoryBytes}) = 2

\* the readings of a scrape that fetched the snapshot d, in any order
NormalReadings(d) ==
    LET Sent(n) == memoryMetric(n, d[n]) \o cpuMetric(n, d[n]) \o loadMetric(n, d[n])
    IN  {collectInstanceMetric(d, instanceMetrics[i]) : i \in 1..Len(instanceMetrics)}
        \cup UNION {LET s == Sent(n) IN {s[i] : i \in 1..Len(s)} : n \in DOMAIN d}

\* the complete scrape sent what its own fetch calls for: after a failed
\* fetch the error indicator alone, after a successful fetch the readings
\* of the fetched snapshot, each once, and no error indicator
OwnOutcomeOnly(p, e, d, c, f) ==
    p = "done" =>
       /\ f = 1
       /\ e.kind # "none" => c = <<[desc |-> multipassError, value |-> 1, labels |-> <<>>]>>
       /\ e.kind = "none" =>
             LET normal == NormalReadings(d)
             IN  /\ Len(c) = Cardinality(normal)
                 /\ {c[i] : i \in 1..Len(c)} = normal
                 /\ \A i \in 1..Len(c) : c[i].desc # multipassError

\* C19: in a sequence of Collect calls on the same collector, whatever
\* number of earlier calls failed, a complete scrape sent what its own
\* fetch calls for (after a successful fetch the full set of readings of
\* its snapshot and no error indicator), and no call ends the process.
C19_FailureDoesNotAffectLaterScrapes ==
    /\ pc # "panicked"
    /\ failures <= scrapes
    /\ OwnOutcomeOnly(pc, err, data, ch, fetches)

\* C19 witness: every earlier scrape of the collector failed and the
\* current one is complete, succeeded and sent per-instance readings.
C19_Witness ==
    /\ pc = "done"
    /\ err.kind = "none"
    /\ scrapes >= 2
    /\ failures = scrapes - 1
    /\ Len(ch) > 5

\* C20, the state part: each of the two overlapping calls started at most
\* one child of its own, decoded its snapshot from the stdout of that
\* child, and once complete sent what its own fetch calls for.
C20_EachCallOnItsOwn ==
    /\ spawns <= 1 /\ other.spawns <= 1
    /\ Succeeded => data = Unmarshal(stdout).val
    /\ (other.pc \in {"fetched", "memory", "cpu", "load", "done"} /\ other.err.kind = "none")
          => other.data = Unmarshal(other.stdout).val
    /\ OwnOutcomeOnly(pc, err, data, ch, fetches)
    /\ OwnOutcomeOnly(other.pc, other.err, other.data, other.ch, other.fetches)
    /\ pc # "panicked" /\ other.pc # "panicked"

\* C20: two Collect calls that overlap on the same collector are
\* independent under every interleaving: each call has its own child, its
\* own deadline and its own snapshot and sends what its own fetch calls
\* for, and a step of one call (its deadline passing, its child failing)
\* changes nothing of the other call.
C20_OverlappingCallsIndependent ==
    /\ []C20_EachCallOnItsOwn
    /\ [][Switch \/ other' = other]_vars

\* C20 witness: both calls are complete; one timed out and sent the error
\* indicator alone, the other succeeded and sent the readings of its
\* snapshot, per-instance readings included.
C20_Witness ==
    /\ pc = "done"
    /\ err.kind = "Timeout"
    /\ Len(ch) = 1
    /\ other.pc = "done"
    /\ other.err.kind = "none"
    /\ Len(other.ch) > 5

\* the field of the instance n is anomalous: a used memory of 0, a cpu
\* count text that does not start with an integer, a load list whose
\* length is not 3
Anomaly(n, field) ==
    CASE field = "memory" -> data[n].MemoryUsed = Int64(0)
      [] field = "cpu" -> ~Sscanf(data[n].CPUCount).ok
      [] field = "load" -> Len(data[n].Load) # 3

\* the field of the instance n calls for readings: it is none of the above
\* and, for the cpu count, the text is an integer
Sound(n, field) ==
    CASE field = "memory" -> data[n].MemoryUsed # Int64(0)
      [] field = "cpu" -> IsInteger(data[n].CPUCount)
      [] field = "load" -> Len(data[n].Load) = 3

\* the readings of the instance n for the field are all there
Present(n, field) ==
    CASE field = "memory" -> Cardinality(MemoryReadingsOf(n)) = 1
      [] field = "cpu" -> Cardinality(CPUReadingsOf(n)) = 1
      [] field = "load" -> Cardinality(LoadReadingsOf(n)) = 3

Fields == {"memory", "cpu", "load"}

\* C21: an anomaly of one field of one instance (a cpu count that does not
\* parse, a load list of the wrong length, a used memory of 0) stays with
\* that field of that instance: no error indicator is sent, the scrape is
\* not aborted and does not end the process, the instance is still
\* counted, and the complete scrape has the readings of every other
\* instance and of every other field of the same instance.
C21_AnomalyIsLocal ==
    (\E n \in DOMAIN data : \E f \in Fields : Anomaly(n, f)) =>
       /\ pc # "panicked"
       /\ err.kind = "none"
       /\ \A i \in 1..Len(ch) : ch[i].desc # multipassError
       /\ pc = "done" =>
             /\ CountOf(instanceTotal) = Cardinality(DOMAIN data)
             /\ \A n \in DOMAIN data : \A f \in Fields :
                   Anomaly(n, f) =>
                      /\ Present(n, f) = FALSE
                      /\ \A m \in DOMAIN data : \A g \in Fields :
                            (<<m, g>> # <<n, f>> /\ Sound(m, g)) => Present(m, g)

\* C21 witness: the scrape is complete; one instance has a cpu count text
\* that does not parse and a load list of one sample, another has a used
\* memory of 0, and the second still has its cpu-count and load readings.
C21_Witness ==
    /\ pc = "done"
    /\ err.kind = "none"
    /\ \E n \in DOMAIN data : \E m \in DOMAIN data \ {n} :
          /\ Anomaly(n, "cpu") /\ Anomaly(n, "load")
          /\ CPUReadingsOf(n) = {} /\ LoadReadingsOf(n) = {}
          /\ Anomaly(m, "memory")
          /\ MemoryReadingsOf(m) = {}
          /\ Cardinality(CPUReadingsOf(m)) = 1
          /\ Cardinality(LoadReadingsOf(m)) = 3

\* C22: Describe sends exactly 11 descriptors: the total, the four
\* per-state counts, memory bytes, cpu count and the three load metrics,
\* plus the collection-error indicator.
C22_DescribeSendsElevenDescriptors ==
    descs # <<>> =>
       /\ Len(descs) = 11
       /\ {descs[i] : i \in 1..Len(descs)}
             = CountDescs \cup {instanceMemoryBytes, instanceCPUTotal} \cup LoadDescs
               \cup {multipassError}

\* the place of the instance name in the ascending order of the names
NameIndex(n) == CHOOSE i \in 1..Len(AllNames) : AllNames[i] = n

\* C23: collectInstanceCPUTotalWithData and collectInstanceLoadWithData send
\* the per-instance readings in ascending order of instance name: every
\* reading of instance1 is sent before every reading of instance2.
C23_AscendingNameOrder ==
    \A i \in 1..Len(ch) : \A j \in 1..Len(ch) :
       ( /\ i < j
         /\ \/ ch[i].desc = instanceCPUTotal /\ ch[j].desc = instanceCPUTotal
            \/ ch[i].desc \in LoadDescs /\ ch[j].desc \in LoadDescs )
       => NameIndex(ch[i].labels[1]) <= NameIndex(ch[j].labels[1])

C25_NoChildOutlivesFetch ==
    Returned =>
       /\ child # "running"
       /\ spawns = 0 => child = "none"
       /\ spawns = 1 => child \in {"exited", "killed"}
       /\ child = "killed" => ctxErr = "DeadlineExceeded"

\* C25 witness: multipassInfo has returned the timeout error and the child
\* it started was killed at the deadline.
C25_Witness ==
    /\ pc = "fetched"
    /\ err.kind = "Timeout"
    /\ spawns = 1
    /\ child = "killed"

\* C26: the snapshot is immutable once fetched: from the return of
\* multipassInfo to the end of Collect it is what was decoded from the
\* child's stdout, no derivation step (the counts, memory, cpu, load) adds,
\* removes or changes a record of it, whatever happens to the inventory
\* meanwhile, and no step of a Collect call changes the collector's
\* timeout.
C26_SnapshotImmutable ==
    /\ [](Succeeded => data = Unmarshal(stdout).val)
    /\ [][ /\ (Succeeded /\ pc # "done") => data' = data
           /\ timeout' = timeout ]_vars

\* C26 witness: the scrape is complete and sent per-instance readings, the
\* inventory has changed since the fetch, and the snapshot is still the
\* one decoded from the child's stdout.
C26_Witness ==
    /\ pc = "done"
    /\ err.kind = "none"
    /\ Len(ch) > 5
    /\ world # data
    /\ data = Unmarshal(stdout).val

\* the field of the configuration c that the yaml key names
FieldOf(c, key) ==
    CASE key = "port" -> c.Port
      [] key = "timeout_seconds" -> c.TimeoutSeconds
      [] key = "metrics_path" -> c.MetricsPath
      [] key = "log_level" -> c.LogLevel

\* the documented defaults: port 1986, metrics path /metrics, timeout 5
\* seconds, log level info
Defaults ==
    [Port |-> 1986, MetricsPath |-> "/metrics", TimeoutSeconds |-> 5, LogLevel |-> "info"]

\* the value the node gives a field of the key's kind
ValueOf(key, node) == IF key \in IntKeys THEN node.int ELSE node.text

\* the fields of the returned configuration: a key that is absent from the
\* file keeps its default, a key with a value has that value
FieldsFollowFile ==
    /\ app.cfg # <<>>
    /\ \A key \in Keys :
          /\ app.file.fields[key].tag = "absent" =>
                FieldOf(app.cfg[1], key) = FieldOf(Defaults, key)
          /\ app.file.fields[key].tag \in {"int", "str"} =>
                FieldOf(app.cfg[1], key) = ValueOf(key, app.file.fields[key])

Mismatch ==
    \/ app.file.kind = "scalar"
    \/ /\ app.file.kind = "mapping"
       /\ \E key \in Keys :
             \/ key \in IntKeys /\ app.file.fields[key].tag \in {"str", "seq"}
             \/ key \notin IntKeys /\ app.file.fields[key].tag = "seq"

C28_ReadingsUseDescribedDescriptors ==
    \A i \in 1..Len(ch) : \E j \in 1..Len(descs) : descs[j] = ch[i].desc

\* C29: within the output of one Collect call no two readings have the
\* same descriptor and the same label values: an unlabelled metric appears
\* at most once, a per-instance metric at most once per instance, and the
\* name label of a per-instance reading is a key of the snapshot.
C29_NoDuplicateReadings ==
    /\ \A i \in 1..Len(ch) : \A j \in 1..Len(ch) :
          (ch[i].desc = ch[j].desc /\ ch[i].labels = ch[j].labels) => i = j
    /\ \A i \in 1..Len(ch) :
          IF ch[i].desc \in PerInstanceDescs
          THEN Len(ch[i].labels) = 2 /\ ch[i].labels[1] \in DOMAIN data
          ELSE ch[i].labels = <<>>

\* C29 witness: the scrape is complete for a snapshot of two instances
\* with equal records, whose readings differ in the name label only.
C29_Witness ==
    /\ pc = "done"
    /\ err.kind = "none"
    /\ \E n \in DOMAIN data : \E m \in DOMAIN data \ {n} :
          /\ data[n] = data[m]
          /\ \E i \in CPUReadingsOf(n) : \E j \in CPUReadingsOf(m) :
                ch[i].value = ch[j].value /\ ch[i].labels[2] = ch[j].labels[2]
          /\ Cardinality(LoadReadingsOf(n)) = 3 /\ Cardinality(LoadReadingsOf(m)) = 3

\* the place of the metric in the order of the groups
GroupOf(desc) ==
    CASE desc = instanceTotal -> 1
      [] desc = instanceRunning -> 2
      [] desc = instanceStopped -> 3
      [] desc = instanceDeleted -> 4
      [] desc = instanceSuspended -> 5
      [] desc = instanceMemoryBytes -> 6
      [] desc = instanceCPUTotal -> 7
      [] desc \in LoadDescs -> 8
      [] OTHER -> 0

\* C30: a successful Collect call sends its readings in the order of the
\* metric groups: total, running, stopped, deleted, suspended, one each and
\* in that order, then all memory readings, then all cpu-count readings,
\* then all load readings; no reading of a later group comes before a
\* reading of an earlier group.
C30_MetricGroupOrder ==
    Succeeded =>
       /\ \A i \in 1..Len(ch) : \A j \in 1..Len(ch) :
             i < j => GroupOf(ch[i].desc) <= GroupOf(ch[j].desc)
       /\ pc # "fetched" =>
             /\ Len(ch) >= 5
             /\ \A i \in 1..5 : GroupOf(ch[i].desc) = i
             /\ \A i \in 6..Len(ch) : GroupOf(ch[i].desc) > 5

\* C30 witness: the scrape is complete and sent the five counts, two
\* memory readings, two cpu-count readings and six load readings.
C30_Witness ==
    /\ pc = "done"
    /\ err.kind = "none"
    /\ Len(ch) = 15
    /\ Cardinality({i \in 1..Len(ch) : GroupOf(ch[i].desc) = 6}) = 2
    /\ Cardinality({i \in 1..Len(ch) : GroupOf(ch[i].desc) = 7}) = 2
    /\ Cardinality({i \in 1..Len(ch) : GroupOf(ch[i].desc) = 8}) = 6

====
